---- MODULE Spec2Model ----
(***************************************************************************)
(* Model of hqc_ddi_vqe_prototype.py: the VQE orchestration loop           *)
(* (HybridQuantumOrchestrator), the plugin registry (PluginRegistry), the  *)
(* access check (DataGovernanceManager.check_access) and the demo flow     *)
(* (run_full_demo).                                                        *)
(*                                                                         *)
(* scipy.optimize.minimize(method="COBYLA") is a library outside the       *)
(* repository.  It is modelled as an environment that drives the cost      *)
(* function: it evaluates the initial point first, makes at most maxiter   *)
(* evaluations (option maxiter = "maximum number of function evaluations", *)
(* the initial point is always evaluated), and returns a point it has      *)
(* evaluated together with the value the cost function returned there and  *)
(* a success flag.  Which point it returns is not fixed by the code.       *)
(***************************************************************************)
EXTENDS Integers, Sequences, FiniteSets, TLC

(* ------------------------------ bounds --------------------------------- *)
\* number of execute_vqe_workflow calls on one orchestrator
MaxRuns == 2
\* total number of backend evaluations over the orchestrator's lifetime
MaxCalls == 3
\* largest max_iterations argument tried
MaxIterBound == 2
\* number of register_quantum_backend calls
MaxRegs == 3
\* number of audit-log entries written by governance calls
MaxAudit == 3
\* number of record_data_quality calls
MaxQuality == 2

(* ------------------------------ inputs --------------------------------- *)
None == "None"
\* values of get_result / adapter_result before the first call
NoGet == [name |-> "-", value |-> "-"]
NoResolve == [backend_type |-> "-", adapter |-> "-"]
\* energies stand for the floats of np.random.random() - 0.5
Energies == {-1, 1}
ParamVals == {0, 1}
\* problem_config dictionaries: a function whose DOMAIN is the set of keys present
Configs ==
  { [n_qubits |-> 2, num_parameters |-> 4, ansatz_reps |-> 2, backend |-> "qiskit_simulator"],
    [n_qubits |-> 0, num_parameters |-> 1, backend |-> "ionq"],
    [n_qubits |-> 3, num_parameters |-> 0],
    [ansatz_reps |-> 1] }
MaxIterInputs == 0..MaxIterBound
BackendTypes == {"qiskit_simulator", "braket", "cuda_q", "ionq", "nonexistent"}
OrchestratorBackends == {"qiskit_simulator", "ionq"}
RegNames == {"qiskit_sim", "braket"}
RegAdapters == {"_qiskit_simulator", "_aws_braket"}
Users == {"quantum_engineer_1"}
RoleInputs == {"quantum_specialist", "data_steward", "intern"}
ActionInputs == {"execute_quantum", "read"}
DatasetIds == {"drug_discovery_001", "portfolio_002"}
Owners == {"pharma_scientist_1"}
\* quality_metrics arguments: the metric values in thousandths
MetricInputs == { << 900, 1000 >>, << 800 >> }
\* value of last_quality before the first record_data_quality call
NoQuality == [n |-> 0, dataset_id |-> "-", raised |-> None]
\* value of last_check before the first check_access call
NoCheck == [n |-> 0, user |-> "-", role |-> "-", action |-> "-", result |-> FALSE]

VARIABLES
  backend_type,        \* self.backend_type
  execution_history,   \* self.execution_history: sequence of workflow results
  workflow_state,      \* one state per execution started: Built, Running, Completed, Failed
  problem_config,      \* argument of the current execution
  max_iterations,      \* argument of the current execution
  hamiltonian,         \* shape << rows, columns >> of the operator built (<< 0, 0 >>: none built)
  ansatz,              \* ansatz descriptor
  init_params,         \* initial parameter vector
  lists,               \* heap of list objects created by `iteration_history = []`
  iteration_history,   \* reference (index into lists) of the current execution's list
  cf,                  \* position inside cost_function: idle, called, evaluated, appended
  params,              \* parameters proposed in the current cost_function call
  energy,              \* value returned by _quantum_evaluate in the current call
  nfev,                \* cost_function calls the optimizer has completed in this execution
  calls,               \* backend evaluations invoked so far (all executions)
  returned,            \* << result >> returned by the last execute_vqe_workflow call, << >> if none
  raised,              \* exception that left the last execute_vqe_workflow call
  quantum_backends,    \* PluginRegistry.quantum_backends
  reg_log,             \* register_quantum_backend calls made, in order
  get_result,          \* last get_quantum_backend call: name and value returned
  adapter_result,      \* last get_backend_adapter call: backend_type and value returned
  metadata_store,      \* DataGovernanceManager.metadata_store
  audit_log,           \* DataGovernanceManager.audit_log
  last_check,          \* last check_access call: its number, arguments and value returned
  last_quality,        \* last record_data_quality call: its number, dataset_id and exception
  has_access,          \* run_full_demo: value of has_access
  demo_pc              \* run_full_demo: position

vars == << backend_type, execution_history, workflow_state, problem_config,
           max_iterations, hamiltonian, ansatz, init_params, lists,
           iteration_history, cf, params, energy, nfev, calls, returned, raised,
           quantum_backends, reg_log, get_result, adapter_result,
           metadata_store, audit_log, last_check, last_quality, has_access, demo_pc >>

orchVars == << backend_type, execution_history, workflow_state, problem_config,
               max_iterations, hamiltonian, ansatz, init_params, lists,
               iteration_history, cf, params, energy, nfev, calls, returned, raised >>
regVars == << quantum_backends, reg_log, get_result, adapter_result >>
govVars == << metadata_store, audit_log, last_check, last_quality >>
demoVars == << has_access, demo_pc >>

(* ------------------------------ helpers -------------------------------- *)
\* dict.get(key, default)
Get(d, key, default) == IF key \in DOMAIN d THEN d[key] ELSE default

\* 2**n_qubits
Pow2Bug(n) == 2 * n
RECURSIVE Pow2(_)
Pow2(n) == IF n = 0 THEN 1 ELSE 2 * Pow2(n - 1)

\* parameter vectors of length n the optimizer may propose
Vectors(n) == { [i \in 1..n |-> v] : v \in ParamVals }

Cur == Len(workflow_state)
State == IF Cur = 0 THEN "Idle" ELSE workflow_state[Cur]
SetState(s) == [workflow_state EXCEPT ![Cur] = s]
History == lists[iteration_history]

RECURSIVE MinEnergy(_)
MinEnergy(h) ==
  IF Len(h) = 1 THEN h[1].energy
  ELSE LET m == MinEnergy(Tail(h)) IN IF h[1].energy < m THEN h[1].energy ELSE m

(* ------------------------ HybridQuantumOrchestrator -------------------- *)
\* lines 243-245: the shape of np.random.random((2**n_qubits, 2**n_qubits))
_construct_hamiltonianBug(cfg) ==
  LET n_qubits == Get(cfg, "n_qubits", 2)
  IN IF n_qubits = 0 THEN << 0, 0 >> ELSE << Pow2(n_qubits), Pow2(n_qubits) >>
_construct_hamiltonian(cfg) ==
  LET n_qubits == Get(cfg, "n_qubits", 2)
  IN << Pow2(n_qubits), Pow2(n_qubits) >>

_construct_ansatz(cfg) ==
  [type |-> "two_local", reps |-> Get(cfg, "ansatz_reps", 2), entanglement |-> "full"]

\* "iteration": len(iteration_history)
NextIterationIndexBug(h) == Len(h) + 1
NextIterationIndex(h) == Len(h)

\* options={"maxiter": max_iterations}: the optimizer's evaluation budget
MayEvaluateBug(n, maxit) == TRUE
MayEvaluate(n, maxit) == n < maxit \/ n = 0

\* iteration_history = []  -- a fresh list object for every execution
FreshListBug(ls) == IF Len(ls) = 0 THEN Append(ls, << >>) ELSE ls
FreshList(ls) == Append(ls, << >>)

\* line 195: the length of init_params, problem_config.get("num_parameters", 4)
InitParamCountBug(cfg) == Get(cfg, "n_qubits", 2)
InitParamCount(cfg) == Get(cfg, "num_parameters", 4)

\* lines 190-197: preprocessing; the workflow is Built
Start(cfg, maxit) ==
  /\ State \in {"Idle", "Completed", "Failed"}
  /\ Cur < MaxRuns
  /\ calls < MaxCalls
  /\ problem_config' = cfg
  /\ max_iterations' = maxit
  /\ hamiltonian' = _construct_hamiltonian(cfg)
  /\ ansatz' = _construct_ansatz(cfg)
  /\ init_params' \in Vectors(InitParamCount(cfg))
  /\ lists' = FreshList(lists)
  /\ iteration_history' = Len(lists')
  /\ workflow_state' = Append(workflow_state, "Built")
  /\ cf' = "idle"
  /\ nfev' = 0
  /\ returned' = << >>
  /\ raised' = None
  /\ UNCHANGED << backend_type, execution_history, params, energy, calls >>

execute_vqe_workflow ==
  /\ \E cfg \in Configs, maxit \in MaxIterInputs : Start(cfg, maxit)
  /\ UNCHANGED << regVars, govVars, demoVars >>

\* line 214: minimize(cost_function, init_params, ...) is entered
InvokeOptimizer ==
  /\ State = "Built"
  /\ workflow_state' = SetState("Running")
  /\ UNCHANGED << backend_type, execution_history, problem_config, max_iterations,
                  hamiltonian, ansatz, init_params, lists, iteration_history, cf,
                  params, energy, nfev, calls, returned, raised >>
  /\ UNCHANGED << regVars, govVars, demoVars >>

\* the optimizer calls cost_function(params); the first call is at init_params
OptimizerCall ==
  /\ State = "Running"
  /\ cf = "idle"
  /\ MayEvaluate(nfev, max_iterations)
  /\ calls < MaxCalls
  /\ \E p \in Vectors(Len(init_params)) :
       /\ nfev = 0 => p = init_params
       /\ params' = p
  /\ cf' = "called"
  /\ UNCHANGED << backend_type, execution_history, workflow_state, problem_config,
                  max_iterations, hamiltonian, ansatz, init_params, lists,
                  iteration_history, energy, nfev, calls, returned, raised >>
  /\ UNCHANGED << regVars, govVars, demoVars >>

\* line 205: one call of _quantum_evaluate per cost_function call, with no
\* handler around it that would call it again
CountEvaluationBug(c) == c + 2
CountEvaluation(c) == c + 1

\* lines 266-285: what the backend evaluation does to the lists: nothing
ListsAfterEvaluateBug(ls) ==
  [ls EXCEPT ![iteration_history] =
     Append(@, [iteration |-> Len(@), params |-> params, energy |-> 1])]
ListsAfterEvaluate(ls) == ls

\* line 205 and lines 266-285: the backend evaluation returns an energy
_quantum_evaluate ==
  /\ State = "Running"
  /\ cf = "called"
  /\ \E e \in Energies : energy' = e
  /\ cf' = "evaluated"
  /\ calls' = CountEvaluation(calls)
  /\ lists' = ListsAfterEvaluate(lists)
  /\ UNCHANGED << backend_type, execution_history, workflow_state, problem_config,
                  max_iterations, hamiltonian, ansatz, init_params,
                  iteration_history, params, nfev, returned, raised >>
  /\ UNCHANGED << regVars, govVars, demoVars >>

\* lines 218-225: the result packaged from the optimizer's outcome (x, fun, success)
WorkflowResult(x, fun, success) ==
  [backend |-> backend_type,
   problem |-> problem_config,
   optimal_params |-> x,
   minimum_energy |-> fun,
   iterations |-> iteration_history,
   success |-> success]

\* what an exception raised by the backend evaluation does to the execution:
\* nothing in lines 200-228 catches it, so it leaves execute_vqe_workflow
OnEvaluationFailureBug(eh) == Append(eh, WorkflowResult(params, energy, FALSE))
OnEvaluationFailure(eh) == eh

EvaluationFails ==
  /\ State = "Running"
  /\ cf = "called"
  /\ cf' = "idle"
  /\ calls' = CountEvaluation(calls)
  /\ workflow_state' = SetState("Failed")
  /\ raised' = "EvaluationFailure"
  /\ returned' = << >>
  /\ execution_history' = OnEvaluationFailure(execution_history)
  /\ UNCHANGED << backend_type, problem_config, max_iterations, hamiltonian, ansatz,
                  init_params, lists, iteration_history, params, energy, nfev >>
  /\ UNCHANGED << regVars, govVars, demoVars >>

\* lines 206-210: the record built from the call's parameters and energy
EvaluationRecordBug(h, p, e) ==
  [iteration |-> NextIterationIndex(h), params |-> init_params, energy |-> 0 - e]
EvaluationRecord(h, p, e) ==
  [iteration |-> NextIterationIndex(h), params |-> p, energy |-> e]

\* lines 206-210: iteration_history.append({...})
AppendRecord ==
  /\ State = "Running"
  /\ cf = "evaluated"
  /\ lists' = [lists EXCEPT ![iteration_history] =
                 Append(@, EvaluationRecord(@, params, energy))]
  /\ cf' = "appended"
  /\ UNCHANGED << backend_type, execution_history, workflow_state, problem_config,
                  max_iterations, hamiltonian, ansatz, init_params,
                  iteration_history, params, energy, nfev, calls, returned, raised >>
  /\ UNCHANGED << regVars, govVars, demoVars >>

\* line 211: return energy
ReturnEnergy ==
  /\ State = "Running"
  /\ cf = "appended"
  /\ cf' = "idle"
  /\ nfev' = nfev + 1
  /\ UNCHANGED << backend_type, execution_history, workflow_state, problem_config,
                  max_iterations, hamiltonian, ansatz, init_params, lists,
                  iteration_history, params, energy, calls, returned, raised >>
  /\ UNCHANGED << regVars, govVars, demoVars >>

\* line 227: self.execution_history.append(workflow_result)
LogResultBug(eh, r) == << r >>
LogResult(eh, r) == Append(eh, r)

\* where the workflow goes when minimize returns with the given success flag
AfterOptimizerRestart(success) == IF success THEN "Completed" ELSE "Built"
AfterOptimizerBug(success) == IF success THEN "Completed" ELSE "Failed"
AfterOptimizer(success) == "Completed"

\* lines 214-228: minimize returns the k-th point it evaluated; package and log
OptimizerReturn ==
  /\ State = "Running"
  /\ cf = "idle"
  /\ nfev >= 1
  /\ \E k \in 1..Len(History), success \in BOOLEAN :
       LET next == AfterOptimizer(success)
           res == WorkflowResult(History[k].params, History[k].energy, success)
       IN /\ workflow_state' = SetState(next)
          /\ IF next = "Completed"
               THEN /\ execution_history' = LogResult(execution_history, res)
                    /\ returned' = << res >>
                    /\ raised' = None
               ELSE /\ execution_history' = execution_history
                    /\ returned' = << >>
                    /\ raised' = "OptimizerNonConvergence"
  /\ UNCHANGED << backend_type, problem_config, max_iterations, hamiltonian, ansatz,
                  init_params, lists, iteration_history, cf, params, energy, nfev,
                  calls >>
  /\ UNCHANGED << regVars, govVars, demoVars >>

\* line 214 with an empty init_params: the library may refuse the empty vector
OptimizerRejects ==
  /\ State = "Running"
  /\ cf = "idle"
  /\ nfev = 0
  /\ Len(init_params) = 0
  /\ workflow_state' = SetState("Failed")
  /\ raised' = "OptimizerError"
  /\ returned' = << >>
  /\ UNCHANGED << backend_type, execution_history, problem_config, max_iterations,
                  hamiltonian, ansatz, init_params, lists, iteration_history, cf,
                  params, energy, nfev, calls >>
  /\ UNCHANGED << regVars, govVars, demoVars >>

\* lines 298-303: adapters.get(backend_type, self._qiskit_simulator)
adapters ==
  [qiskit_simulator |-> "_qiskit_simulator", braket |-> "_aws_braket", cuda_q |-> "_cuda_q"]

ResolveAdapterBug(bt) == IF bt \in DOMAIN adapters THEN adapters[bt] ELSE None
ResolveAdapter(bt) == Get(adapters, bt, "_qiskit_simulator")

get_backend_adapter ==
  /\ \E bt \in BackendTypes :
       adapter_result' = [backend_type |-> bt, adapter |-> ResolveAdapter(bt)]
  /\ UNCHANGED << quantum_backends, reg_log, get_result >>
  /\ UNCHANGED << orchVars, govVars, demoVars >>

(* ----------------------------- PluginRegistry -------------------------- *)
\* line 478: self.quantum_backends[name] = adapter_class
RegisterBackendBug(qb, name, adapter) ==
  IF name \in DOMAIN qb THEN qb
  ELSE [n \in DOMAIN qb \cup {name} |-> IF n = name THEN adapter ELSE qb[n]]
RegisterBackend(qb, name, adapter) ==
  [n \in DOMAIN qb \cup {name} |-> IF n = name THEN adapter ELSE qb[n]]

\* line 506: self.quantum_backends.get(name)
LookupBackend(qb, name) == Get(qb, name, None)

register_quantum_backend ==
  /\ Len(reg_log) < MaxRegs
  /\ \E name \in RegNames, adapter \in RegAdapters :
       /\ quantum_backends' = RegisterBackend(quantum_backends, name, adapter)
       /\ reg_log' = Append(reg_log, << name, adapter >>)
  /\ UNCHANGED << get_result, adapter_result >>
  /\ UNCHANGED << orchVars, govVars, demoVars >>

get_quantum_backend ==
  /\ \E name \in RegNames :
       get_result' = [name |-> name, value |-> LookupBackend(quantum_backends, name)]
  /\ UNCHANGED << quantum_backends, reg_log, adapter_result >>
  /\ UNCHANGED << orchVars, govVars, demoVars >>

(* ------------------------- DataGovernanceManager ----------------------- *)
\* lines 33-39
ROLES ==
  [data_owner |-> {"read", "write", "approve", "delete"},
   quantum_specialist |-> {"read", "execute_quantum", "write_results"},
   classical_specialist |-> {"read", "execute_classical", "write_results"},
   data_steward |-> {"read", "validate_quality", "audit"},
   compliance_officer |-> {"read", "audit", "policy_enforcement"}]

\* lines 119-135: the entry appended (the timestamp is not modelled)
_audit_log(log, event_type, user, details) ==
  Append(log, [event_type |-> event_type, user |-> user, details |-> details])

\* lines 88-97: the value check_access returns
AccessGrantedBug(role, action) == role \in DOMAIN ROLES
AccessGranted(role, action) == role \in DOMAIN ROLES /\ action \in ROLES[role]

\* lines 88-97: the audit log after check_access
AccessLogged(log, user, role, action) ==
  IF role \notin DOMAIN ROLES
    THEN _audit_log(log, "DENIED", user, << "Invalid role", role >>)
    ELSE IF action \notin ROLES[role]
      THEN _audit_log(log, "DENIED", user, << "cannot perform", role, action >>)
      ELSE _audit_log(log, "GRANTED", user, << "approved", action, role >>)

\* lines 75-97: one call of check_access
CheckAccess(user, role, action) ==
  /\ audit_log' = AccessLogged(audit_log, user, role, action)
  /\ last_check' = [n |-> last_check.n + 1, user |-> user, role |-> role,
                     action |-> action, result |-> AccessGranted(role, action)]
  /\ UNCHANGED << metadata_store, last_quality >>

check_access ==
  /\ Len(audit_log) < MaxAudit
  /\ \E user \in Users, role \in RoleInputs, action \in ActionInputs :
       CheckAccess(user, role, action)
  /\ UNCHANGED << orchVars, regVars, demoVars >>

\* lines 60-73
create_dataset_metadata(dataset_id, owner, purpose, classification) ==
  /\ metadata_store' =
       [d \in DOMAIN metadata_store \cup {dataset_id} |->
          IF d = dataset_id
            THEN [dataset_id |-> dataset_id, data_owner |-> owner, purpose |-> purpose,
                  classification |-> classification,
                  data_type |-> "quantum_classical_hybrid",
                  provenance |-> << >>, policies |-> << >>, quality_score |-> 0]
            ELSE metadata_store[d]]
  /\ audit_log' = _audit_log(audit_log, "CREATE", owner, << "Created dataset", dataset_id >>)

CreateDataset ==
  /\ Len(audit_log) < MaxAudit
  /\ \E dataset_id \in DatasetIds, owner \in Owners :
       create_dataset_metadata(dataset_id, owner, "screening", "internal")
  /\ UNCHANGED << last_check, last_quality >>
  /\ UNCHANGED << orchVars, regVars, demoVars >>

RECURSIVE SumSeq(_)
SumSeq(q) == IF q = << >> THEN 0 ELSE q[1] + SumSeq(Tail(q))

\* lines 115-117: the record with the metrics and their mean stored
WithQuality(record, quality_metrics) ==
  [k \in DOMAIN record \cup {"quality_metrics", "quality_score"} |->
     IF k = "quality_metrics" THEN quality_metrics
     ELSE IF k = "quality_score"
       THEN SumSeq(quality_metrics) \div Len(quality_metrics)
       ELSE record[k]]

\* lines 114-117: the metadata store after record_data_quality
StoreAfterQualityBug(store, dataset_id, quality_metrics) ==
  [d \in DOMAIN store \cup {dataset_id} |->
     IF d = dataset_id
       THEN WithQuality(IF d \in DOMAIN store THEN store[d] ELSE [dataset_id |-> d],
                        quality_metrics)
       ELSE store[d]]
StoreAfterQuality(store, dataset_id, quality_metrics) ==
  IF dataset_id \in DOMAIN store
    THEN [store EXCEPT ![dataset_id] = WithQuality(@, quality_metrics)]
    ELSE store

\* lines 114-117; metric values are in thousandths, the mean is exact when it divides
record_data_quality(dataset_id, quality_metrics) ==
  /\ metadata_store' = StoreAfterQuality(metadata_store, dataset_id, quality_metrics)
  /\ last_quality' = [n |-> last_quality.n + 1, dataset_id |-> dataset_id, raised |-> None]
  /\ UNCHANGED audit_log

RecordQuality ==
  /\ last_quality.n < MaxQuality
  /\ \E dataset_id \in DatasetIds, quality_metrics \in MetricInputs :
       record_data_quality(dataset_id, quality_metrics)
  /\ UNCHANGED last_check
  /\ UNCHANGED << orchVars, regVars, demoVars >>

(* ------------------------------ run_full_demo -------------------------- *)
\* lines 587-592
DemoConfig ==
  [n_qubits |-> 2, num_parameters |-> 4, ansatz_reps |-> 2, backend |-> "qiskit_simulator"]
\* line 594: max_iterations=20
DemoMaxIterations == 20

\* lines 557-564
DemoCreateMetadata ==
  /\ demo_pc = "start"
  /\ create_dataset_metadata("drug_discovery_001", "pharma_scientist_1",
                             "Virtual screening for protein targets", "confidential")
  /\ demo_pc' = "created"
  /\ UNCHANGED << has_access, last_check, last_quality >>
  /\ UNCHANGED << orchVars, regVars >>

\* lines 566-571: has_access = governance.check_access(...).  The demo passes
\* "quantum_specialist"/"execute_quantum"; the role and action are drawn from
\* RoleInputs/ActionInputs so that both outcomes of the check are followed.
DemoCheckAccess ==
  /\ demo_pc = "created"
  /\ \E user \in Users, role \in RoleInputs, action \in ActionInputs :
       /\ CheckAccess(user, role, action)
       /\ has_access' = AccessGranted(role, action)
  /\ demo_pc' = "checked"
  /\ UNCHANGED << orchVars, regVars >>

\* lines 573-579
DemoRecordQuality ==
  /\ demo_pc = "checked"
  /\ record_data_quality("drug_discovery_001", << 950, 900, 980, 990, 920 >>)
  /\ demo_pc' = "quality"
  /\ UNCHANGED << has_access, last_check >>
  /\ UNCHANGED << orchVars, regVars >>

\* lines 585-594: the orchestrator is created and execute_vqe_workflow is called
DemoExecute ==
  /\ demo_pc = "quality"
  /\ Start(DemoConfig, DemoMaxIterations)
  /\ demo_pc' = "executing"
  /\ UNCHANGED << has_access >>
  /\ UNCHANGED << govVars, regVars >>

\* lines 595-647: the call has returned; the three backends are registered
DemoRegister ==
  /\ demo_pc = "executing"
  /\ State = "Completed"
  /\ quantum_backends' =
       RegisterBackend(RegisterBackend(RegisterBackend(quantum_backends,
         "qiskit_sim", "_qiskit_simulator"), "braket", "_aws_braket"), "cuda_q", "_cuda_q")
  /\ reg_log' = reg_log \o << << "qiskit_sim", "_qiskit_simulator" >>,
                             << "braket", "_aws_braket" >>, << "cuda_q", "_cuda_q" >> >>
  /\ demo_pc' = "done"
  /\ UNCHANGED << get_result, adapter_result, has_access >>
  /\ UNCHANGED << orchVars, govVars >>

Init ==
  /\ backend_type \in OrchestratorBackends
  /\ execution_history = << >>
  /\ workflow_state = << >>
  /\ problem_config = << >>
  /\ max_iterations = 0
  /\ hamiltonian = << 0, 0 >>
  /\ ansatz = None
  /\ init_params = << >>
  /\ lists = << >>
  /\ iteration_history = 0
  /\ cf = "idle"
  /\ params = << >>
  /\ energy = 0
  /\ nfev = 0
  /\ calls = 0
  /\ returned = << >>
  /\ raised = None
  /\ quantum_backends = << >>
  /\ reg_log = << >>
  /\ get_result = NoGet
  /\ adapter_result = NoResolve
  /\ metadata_store = << >>
  /\ audit_log = << >>
  /\ last_check = NoCheck
  /\ last_quality = NoQuality
  /\ has_access = None
  /\ demo_pc = "start"

\* the steps of minimize on a non-empty parameter vector
OptimizerRun ==
  \/ InvokeOptimizer
  \/ OptimizerCall
  \/ _quantum_evaluate
  \/ EvaluationFails
  \/ AppendRecord
  \/ ReturnEnergy
  \/ OptimizerReturn

WorkflowStep ==
  \/ OptimizerRun
  \/ OptimizerRejects

Next ==
  \/ execute_vqe_workflow
  \/ WorkflowStep

Spec == Init /\ [][Next]_vars

\* The execution is synchronous and single-threaded: every step that is
\* pending is taken.  The optimizer stops after at most maxiter evaluations
\* and a backend evaluation returns or raises.
Fairness ==
  /\ WF_vars(InvokeOptimizer)
  /\ WF_vars(OptimizerCall \/ OptimizerReturn \/ OptimizerRejects)
  /\ WF_vars(_quantum_evaluate \/ EvaluationFails)
  /\ WF_vars(AppendRecord)
  /\ WF_vars(ReturnEnergy)

SpecFair == Init /\ [][Next]_vars /\ Fairness

\* executions of specs with n_qubits = 0, with the backend evaluation as it
\* is written (lines 284-285: it always returns)
ZeroQubitConfigs == { cfg \in Configs : Get(cfg, "n_qubits", 2) = 0 }

ExecuteZeroQubit ==
  /\ \E cfg \in ZeroQubitConfigs, maxit \in MaxIterInputs : Start(cfg, maxit)
  /\ UNCHANGED << regVars, govVars, demoVars >>

NextZeroQubit ==
  \/ ExecuteZeroQubit
  \/ InvokeOptimizer
  \/ OptimizerCall
  \/ _quantum_evaluate
  \/ AppendRecord
  \/ ReturnEnergy
  \/ OptimizerReturn

SpecZeroQubit ==
  /\ Init
  /\ [][NextZeroQubit]_vars
  /\ WF_vars(InvokeOptimizer)
  /\ WF_vars(OptimizerCall \/ OptimizerReturn)
  /\ WF_vars(_quantum_evaluate)
  /\ WF_vars(AppendRecord)
  /\ WF_vars(ReturnEnergy)

\* the workflow together with get_backend_adapter, which any caller of the
\* orchestrator may invoke; execute_vqe_workflow itself never does
NextResolve ==
  \/ Next
  \/ get_backend_adapter

SpecResolve == Init /\ [][NextResolve]_vars

NextGovernance ==
  \/ check_access
  \/ CreateDataset
  \/ RecordQuality

SpecGovernance == Init /\ [][NextGovernance]_vars

NextBackends ==
  \/ register_quantum_backend
  \/ get_quantum_backend
  \/ get_backend_adapter

SpecBackends == Init /\ [][NextBackends]_vars

\* line 585: HybridQuantumOrchestrator(backend_type="qiskit_simulator")
DemoInit == Init /\ backend_type = "qiskit_simulator"

NextDemo ==
  \/ DemoCreateMetadata
  \/ DemoCheckAccess
  \/ DemoRecordQuality
  \/ DemoExecute
  \/ DemoRegister
  \/ OptimizerRun

SpecDemo == DemoInit /\ [][NextDemo]_vars

(* ------------------------------- claims -------------------------------- *)

\* C1: in every list an execution has created, the k-th appended record
\* carries iteration index k-1 (0,1,2,... without gap or duplicate).
C1_IterationIndices ==
  \A i \in 1..Len(lists) : \A k \in 1..Len(lists[i]) : lists[i][k].iteration = k - 1

\* an execution in which the cost function has been called twice
C1_Witness == Cur >= 1 /\ Len(History) = 2 /\ History[2].iteration = 1

C3_MinimumEnergyIsHistoryMinimum ==
  State = "Completed" =>
    returned[1].minimum_energy = MinEnergy(lists[returned[1].iterations])

\* C4 (as claimed): an execution whose spec has parameter_count = 0 fails with
\* InvalidSpec with no operator built, no history entry and no result.
C4_ZeroParametersRejected ==
  (Cur >= 1 /\ Get(problem_config, "num_parameters", 4) = 0) =>
    /\ State = "Failed"
    /\ raised = "InvalidSpec"
    /\ hamiltonian = << 0, 0 >>
    /\ Len(History) = 0
    /\ returned = << >>

\* C5: the step in which a backend evaluation fails ends the execution as
\* Failed with the failure raised to the caller, returns no result and leaves
\* the cumulative execution log unchanged; a failed execution holds no result.
C5_FailurePropagates ==
  /\ [][(cf = "called" /\ State' = "Failed") =>
          /\ raised' = "EvaluationFailure"
          /\ returned' = << >>
          /\ execution_history' = execution_history]_vars
  /\ [](State = "Failed" => returned = << >>)

\* the second execution fails after one successful evaluation; the log still
\* holds exactly the first execution's result
C5_Witness ==
  /\ State = "Failed" /\ raised = "EvaluationFailure"
  /\ Cur = 2 /\ Len(History) = 1
  /\ Len(execution_history) = 1

\* C6: get_backend_adapter on a backend_type outside its adapter table returns
\* the simulator adapter, and no call returns None.
C6_UnknownBackendDefaults ==
  adapter_result # NoResolve =>
    /\ adapter_result.adapter # None
    /\ adapter_result.backend_type \notin {"qiskit_simulator", "braket", "cuda_q"}
         => adapter_result.adapter = "_qiskit_simulator"

C6_Witness ==
  /\ adapter_result.backend_type = "nonexistent"
  /\ adapter_result.adapter = "_qiskit_simulator"

\* the adapter of the most recent register call for name in log (None if none)
RECURSIVE LastRegistered(_, _)
LastRegistered(log, name) ==
  IF log = << >> THEN None
  ELSE IF log[Len(log)][1] = name THEN log[Len(log)][2]
  ELSE LastRegistered(SubSeq(log, 1, Len(log) - 1), name)

\* C7: get_quantum_backend(name) returns the adapter of the most recent
\* register_quantum_backend(name, .) call, and a register call leaves the
\* registrations of all other names as they were.
C7_LastWriteWins ==
  [][/\ (get_result' # get_result /\ LastRegistered(reg_log, get_result'.name) # None)
          => get_result'.value = LastRegistered(reg_log, get_result'.name)
     /\ reg_log' # reg_log =>
          \A n \in RegNames \ {reg_log'[Len(reg_log')][1]} :
            LookupBackend(quantum_backends', n) = LookupBackend(quantum_backends, n)]_vars

\* a name registered twice with different adapters resolves to the later one,
\* while another name is registered as well
C7_Witness ==
  /\ Len(reg_log) = 3
  /\ reg_log[1][1] = reg_log[3][1] /\ reg_log[1][2] # reg_log[3][2]
  /\ reg_log[2][1] # reg_log[1][1]
  /\ get_result.name = reg_log[3][1] /\ get_result.value = reg_log[3][2]

\* C8: every execution starts with an empty history of its own, so its
\* indices start at 0, and no step changes the log entry or the history of a
\* result that an earlier execution returned.
C8_IndependentHistories ==
  /\ [](State = "Built" =>
          /\ History = << >>
          /\ \A i \in 1..Len(execution_history) :
               execution_history[i].iterations # iteration_history)
  /\ [](\A i \in 1..Len(lists) : Len(lists[i]) >= 1 => lists[i][1].iteration = 0)
  /\ [][\A i \in 1..Len(execution_history) :
          /\ i <= Len(execution_history')
          /\ execution_history'[i] = execution_history[i]
          /\ lists'[execution_history[i].iterations] =
               lists[execution_history[i].iterations]]_vars

\* two completed executions, the second with a record in its own history
C8_Witness ==
  /\ Len(execution_history) = 2
  /\ execution_history[1].iterations # execution_history[2].iterations
  /\ Len(lists[execution_history[1].iterations]) >= 1
  /\ Len(lists[execution_history[2].iterations]) >= 1

\* C9: the step in which the optimizer returns takes the workflow from
\* Running to Completed and returns a logged result carrying the success
\* flag; no execution ends on optimizer non-convergence.
C9_OptimizerReturnCompletes ==
  /\ [][(State = "Running" /\ cf = "idle" /\ nfev >= 1 /\ State' # "Running") =>
          /\ State' = "Completed"
          /\ Len(returned') = 1
          /\ returned'[1].success \in BOOLEAN
          /\ execution_history' = Append(execution_history, returned'[1])]_vars
  /\ [](raised # "OptimizerNonConvergence")

\* a completed execution whose optimizer reported no convergence
C9_Witness == State = "Completed" /\ returned[1].success = FALSE

CompletedRuns == { r \in 1..Cur : workflow_state[r] = "Completed" }

\* C11: the execution log holds exactly one result per completed execution,
\* in completion order, and every step keeps the entries already logged, in
\* place and unchanged.
C11_LogAppendOnly ==
  /\ [](/\ Len(execution_history) = Cardinality(CompletedRuns)
        /\ \A i \in 1..Len(execution_history) :
             execution_history[i].iterations \in CompletedRuns
        /\ \A i, j \in 1..Len(execution_history) :
             i < j => execution_history[i].iterations < execution_history[j].iterations)
  /\ [][/\ Len(execution_history') >= Len(execution_history)
        /\ SubSeq(execution_history', 1, Len(execution_history)) = execution_history]_vars

\* two executions have completed and both results are in the log
C11_Witness ==
  /\ Len(execution_history) = 2
  /\ workflow_state = << "Completed", "Completed" >>

\* C12: every record of the current history has as many parameters as the
\* num_parameters of the execution's problem spec (4 when the key is absent),
\* and so have the records and the optimal_params of every logged result.
C12_ParameterLengths ==
  /\ Cur >= 1 =>
       \A k \in 1..Len(History) :
         Len(History[k].params) = Get(problem_config, "num_parameters", 4)
  /\ \A i \in 1..Len(execution_history) :
       LET r == execution_history[i]
           n == Get(r.problem, "num_parameters", 4)
       IN /\ Len(r.optimal_params) = n
          /\ \A k \in 1..Len(lists[r.iterations]) :
               Len(lists[r.iterations][k].params) = n

\* a completed execution of a one-parameter spec with two records
C12_Witness ==
  /\ State = "Completed"
  /\ "num_parameters" \in DOMAIN problem_config /\ problem_config.num_parameters = 1
  /\ Len(History) = 2
  /\ Len(returned[1].optimal_params) = 1

\* C13: the operator built for the current problem spec is square with
\* 2^n_qubits rows, n_qubits being 2 when the key is absent: 1x1 for 0 qubits,
\* 4x4 for 2 or for an absent key, 8x8 for 3.
C13_OperatorDimension ==
  Cur >= 1 =>
    LET n == IF "n_qubits" \in DOMAIN problem_config THEN problem_config.n_qubits ELSE 2
    IN /\ hamiltonian[1] = hamiltonian[2]
       /\ hamiltonian[1] = 2 ^ n
       /\ n = 0 => hamiltonian = << 1, 1 >>
       /\ n = 2 => hamiltonian = << 4, 4 >>
       /\ n = 3 => hamiltonian = << 8, 8 >>

\* the operator of a three-qubit spec has been built
C13_Witness ==
  /\ State = "Built"
  /\ "n_qubits" \in DOMAIN problem_config /\ problem_config.n_qubits = 3
  /\ hamiltonian = << 8, 8 >>

\* C14: an execution of a spec with n_qubits = 0 builds a 1x1 operator, is
\* never Failed, and from Built it reaches Completed with a result returned.
C14_ZeroQubitsCompletes ==
  /\ [](Cur >= 1 => (hamiltonian = << 1, 1 >> /\ State # "Failed"))
  /\ [](State = "Completed" => (Len(returned) = 1 /\ returned[1].problem.n_qubits = 0))
  /\ \A r \in 1..MaxRuns :
       (Cur = r /\ State = "Built") ~> (Cur >= r /\ workflow_state[r] = "Completed")

\* a zero-qubit execution has completed on a 1x1 operator
C14_Witness ==
  /\ State = "Completed"
  /\ problem_config.n_qubits = 0
  /\ hamiltonian = << 1, 1 >>
  /\ Len(returned) = 1 /\ Len(History) >= 1

\* C15: a cost_function call starts with as many records as calls completed,
\* the only step of the call that changes the history is the append of one
\* record after the evaluation has returned, and the step that hands the
\* value back to the optimizer finds exactly one more record, holding the
\* parameters proposed in this call and the energy handed back.
C15_OneRecordPerCall ==
  /\ [](State = "Running" =>
          Len(History) = IF cf = "appended" THEN nfev + 1 ELSE nfev)
  /\ [][(Cur' = Cur /\ lists' # lists) =>
          /\ cf = "evaluated" /\ cf' = "appended"
          /\ Len(lists'[iteration_history]) = Len(History) + 1
          /\ SubSeq(lists'[iteration_history], 1, Len(History)) = History]_vars
  /\ [][nfev' = nfev + 1 =>
          /\ cf = "appended"
          /\ Len(History) = nfev + 1
          /\ History[Len(History)].energy = energy
          /\ History[Len(History)].params = params
          /\ lists' = lists /\ energy' = energy]_vars

\* the second call of an execution has returned a value and proposed
\* parameters that differ from those of the first call
C15_Witness ==
  /\ State = "Running" /\ cf = "idle" /\ nfev = 2
  /\ History[2].energy = energy /\ History[2].params = params
  /\ History[1].energy # History[2].energy
  /\ History[1].params # History[2].params

\* C16: the step in which the backend evaluation returns changes neither a
\* history, nor the proposed parameters, the operator or the ansatz; within
\* an execution a history changes only in the append step of cost_function.
C16_EvaluationHasNoEffect ==
  /\ [][(cf = "called" /\ cf' = "evaluated") =>
          /\ lists' = lists
          /\ params' = params
          /\ hamiltonian' = hamiltonian
          /\ ansatz' = ansatz
          /\ execution_history' = execution_history]_vars
  /\ [][(Cur' = Cur /\ lists' # lists) => (cf = "evaluated" /\ cf' = "appended")]_vars

\* an evaluation has returned while the history already holds a record
C16_Witness ==
  /\ State = "Running" /\ cf = "evaluated"
  /\ Len(History) = 1

\* C17 (as claimed): before the first cost_function call of an execution the
\* adapter for the spec's backend identifier has been resolved with
\* get_backend_adapter, and it is the one in use while the execution evaluates.
C17_BackendResolvedBeforeEvaluation ==
  (State = "Running" /\ (cf # "idle" \/ nfev >= 1)) =>
    /\ adapter_result # NoResolve
    /\ adapter_result.backend_type = Get(problem_config, "backend", "qiskit_simulator")

\* C18: a cost_function call leaves its evaluation point with exactly one
\* backend evaluation invoked, whether the evaluation returns or fails; an
\* evaluation is only invoked there, the evaluation point is only entered by
\* a new call of the optimizer, and a failed execution evaluates no more.
C18_NoRetry ==
  /\ [][(cf = "called" /\ cf' # "called") => calls' = calls + 1]_vars
  /\ [][calls' # calls => (cf = "called" /\ cf' # "called")]_vars
  /\ [][(cf' = "called" /\ cf # "called") => (cf = "idle" /\ State = "Running")]_vars
  /\ [][(cf = "called" /\ State' = "Failed") => (cf' = "idle" /\ calls' = calls + 1)]_vars
  /\ [][(State = "Failed" /\ Cur' = Cur) => (calls' = calls /\ cf' = "idle")]_vars

\* the second call of an execution failed: two evaluations for two calls
C18_Witness ==
  /\ Cur = 1 /\ State = "Failed" /\ raised = "EvaluationFailure"
  /\ Len(History) = 1 /\ calls = 2

\* C19: every execution that is Built eventually is Completed or Failed; an
\* execution that is Completed or Failed keeps that state and its history for
\* ever, and until the next execution starts no cost_function call is made.
C19_ReachesTerminalAndStays ==
  /\ \A r \in 1..MaxRuns :
       (Cur = r /\ State = "Built")
         ~> (Cur >= r /\ workflow_state[r] \in {"Completed", "Failed"})
  /\ [][\A r \in 1..Cur :
          workflow_state[r] \in {"Completed", "Failed"} =>
            /\ workflow_state'[r] = workflow_state[r]
            /\ lists'[r] = lists[r]]_vars
  /\ [](State \in {"Completed", "Failed"} => cf = "idle")
  /\ [][(State \in {"Completed", "Failed"} /\ Cur' = Cur) =>
          (cf' = "idle" /\ calls' = calls /\ nfev' = nfev)]_vars

\* a second execution has been started after the first one completed, and the
\* first one is still Completed with its history
C19_Witness ==
  /\ Cur = 2 /\ workflow_state[1] = "Completed" /\ State = "Failed"
  /\ Len(lists[1]) >= 1 /\ Len(lists[2]) >= 1

\* C20: a check_access call returns true exactly when its role is a key of
\* ROLES and its action is among that role's actions; it appends exactly one
\* audit entry for its user, GRANTED when it returns true and DENIED when it
\* returns false, and leaves the earlier entries and the metadata store as
\* they were.
C20_CheckAccess ==
  [][last_check'.n # last_check.n =>
       LET c == last_check'
       IN /\ c.result = (/\ c.role \in {"data_owner", "quantum_specialist",
                                        "classical_specialist", "data_steward",
                                        "compliance_officer"}
                         /\ c.action \in ROLES[c.role])
          /\ Len(audit_log') = Len(audit_log) + 1
          /\ SubSeq(audit_log', 1, Len(audit_log)) = audit_log
          /\ audit_log'[Len(audit_log')].event_type =
               IF c.result THEN "GRANTED" ELSE "DENIED"
          /\ audit_log'[Len(audit_log')].user = c.user
          /\ metadata_store' = metadata_store]_vars

\* a dataset exists, a check was denied and the next one was granted
C20_Witness ==
  /\ Len(audit_log) = 3
  /\ audit_log[1].event_type = "CREATE"
  /\ audit_log[2].event_type = "DENIED"
  /\ audit_log[3].event_type = "GRANTED"
  /\ last_check.n = 2 /\ last_check.result
  /\ DOMAIN metadata_store # {}

\* C21 (as claimed): every step that changes the metadata store appends an
\* entry to the audit log.
C21_StoreChangesAreLogged ==
  [][metadata_store' # metadata_store =>
       /\ Len(audit_log') = Len(audit_log) + 1
       /\ SubSeq(audit_log', 1, Len(audit_log)) = audit_log]_vars

\* C22: a record_data_quality call for a dataset_id that has no metadata
\* record raises nothing and leaves the metadata store, with no record
\* created, and the audit log as they were.
C22_QualityOfUnknownDatasetIsNoOp ==
  [][(last_quality'.n # last_quality.n
        /\ last_quality'.dataset_id \notin DOMAIN metadata_store) =>
       /\ last_quality'.raised = None
       /\ metadata_store' = metadata_store
       /\ last_quality'.dataset_id \notin DOMAIN metadata_store'
       /\ audit_log' = audit_log]_vars

\* the quality of an unknown dataset was recorded while another dataset has
\* a record and the audit log an entry
C22_Witness ==
  /\ last_quality.n >= 1
  /\ last_quality.dataset_id \notin DOMAIN metadata_store
  /\ DOMAIN metadata_store # {}
  /\ Len(audit_log) >= 1

====
